---- MODULE Spec2Model ----
(***************************************************************************)
(* Model of the ZFS history watcher (package watcher): the line classifier *)
(* parseEvent, the dedup/filter tracker and dispatcher of                  *)
(* processPoolHistory, and the scheduler Start.                            *)
(*                                                                         *)
(* Text is modelled as a sequence of chunks (strings); the text itself is  *)
(* the concatenation of the chunks.  A single space is the chunk " ".      *)
(* Substring tests and the regular expressions work on chunk boundaries.   *)
(***************************************************************************)
EXTENDS Integers, Sequences, FiniteSets, TLC

(***************************************************************************)
(* Bounds of the model.                                                    *)
(***************************************************************************)
\* number of configured pools (Config.Pools = pool1 .. pool<NPools>)
NPools == 2
\* the clock of the machine that writes the history runs over 1..MaxTime
MaxTime == 2
\* number of lines the environment appends to the histories, all pools together
MaxAppends == 2
\* number of AddEventHandler calls made before Start
MaxHandlers == 2

\* a nil *time.Time (Config.SinceTime not set)
NoTime == -1

(***************************************************************************)
(* Text helpers.                                                           *)
(***************************************************************************)
MinOf(S) == CHOOSE x \in S : \A y \in S : x <= y

\* strings.Contains(s, sub) on chunk boundaries
Contains(s, sub) ==
    \E i \in 1..(Len(s) - Len(sub) + 1) : SubSeq(s, i, i + Len(sub) - 1) = sub

\* the textual form "2006-01-02.15:04:05" of the clock values 0..9
Stamps == [n \in 0..9 |-> "2024-01-01.10:00:0" \o ToString(n)]
StampText(n) == Stamps[n]

\* strings.SplitN(line, " ", 2): the position of the first space, 0 when
\* the line has none (len(parts) # 2)
FirstSpace(line) ==
    IF \E i \in 1..Len(line) : line[i] = " "
    THEN MinOf({i \in 1..Len(line) : line[i] = " "})
    ELSE 0

\* time.Parse("2006-01-02.15:04:05", timestamp): the clock value, or NoTime
\* when the text before the first space is not a timestamp
ParseTime(part) ==
    IF Len(part) = 1 /\ \E n \in 0..9 : part[1] = StampText(n)
    THEN CHOOSE n \in 0..9 : part[1] = StampText(n)
    ELSE NoTime

(***************************************************************************)
(* The four regular expressions compiled in New, on chunks.                *)
(***************************************************************************)
\* \s
IsWs(t) == t = " "
\* \d+
IsDigits(t) == t \in {"1024", "2048"}
\* pool\d+\/
PoolChunks == {"pool" \o ToString(n) \o "/" : n \in 0..9}
IsPool(t) == t \in PoolChunks
\* volume-[a-f0-9\-]+_\d+
IsVolume(t) == t \in {"volume-a_0", "volume-b_1"}
\* snapshot-[a-f0-9\-]+
IsSnapshot(t) == t \in {"snapshot-c", "snapshot-d"}

At(s, i) == IF i \in 1..Len(s) THEN s[i] ELSE ""

\* the first position at or after j that is not whitespace
SkipWs(s, j) == MinOf({k \in j..(Len(s) + 1) : ~IsWs(At(s, k))})

NoMatch == [ok |-> FALSE]

\* pool\d+\/(volume-[a-f0-9\-]+_\d+) at position p
PoolVolAt(s, p) == IsPool(At(s, p)) /\ IsVolume(At(s, p + 1))

\* (-s -V\s+(\d+)KB.*?) followed by pool\d+\/(volume-...) at position p: the
\* positions r of the pool chunk that complete the match
SizeGroupEnds(s, p) ==
    IF At(s, p) = "-s -V" /\ IsWs(At(s, p + 1))
       /\ IsDigits(At(s, SkipWs(s, p + 1)))
       /\ At(s, SkipWs(s, p + 1) + 1) = "KB"
    THEN {r \in (SkipWs(s, p + 1) + 2)..Len(s) : PoolVolAt(s, r)}
    ELSE {}

\* variant of volumeCreateRE: the size group is never taken
CreateAt_NoSize(s, i) ==
    IF At(s, i) = "zfs create" /\ IsWs(At(s, i + 1))
    THEN LET P == {p \in (i + 2)..Len(s) : PoolVolAt(s, p)}
         IN  IF P = {} THEN NoMatch
             ELSE [ok |-> TRUE, m2 |-> "", m3 |-> s[MinOf(P) + 1]]
    ELSE NoMatch

\* volumeCreateRE at position i:
\* zfs create\s+.*?(-s -V\s+(\d+)KB.*?)?pool\d+\/(volume-[a-f0-9\-]+_\d+)
\* the lazy .*? takes the first position p at which the rest matches, and at
\* that position the optional group is tried before its absence
CreateAt(s, i) ==
    IF At(s, i) = "zfs create" /\ IsWs(At(s, i + 1))
    THEN LET P == {p \in (i + 2)..Len(s) :
                      SizeGroupEnds(s, p) # {} \/ PoolVolAt(s, p)}
         IN  IF P = {} THEN NoMatch
             ELSE LET p == MinOf(P)
                  IN  IF SizeGroupEnds(s, p) # {}
                      THEN LET r == MinOf(SizeGroupEnds(s, p))
                           IN  [ok |-> TRUE,
                                m2 |-> At(s, SkipWs(s, p + 1)),
                                m3 |-> s[r + 1]]
                      ELSE [ok |-> TRUE, m2 |-> "", m3 |-> s[p + 1]]
    ELSE NoMatch

\* volResizeRE at position i:
\* zfs set volsize=(\d+)KB\s+pool\d+\/(volume-[a-f0-9\-]+_\d+)
ResizeAt(s, i) ==
    IF At(s, i) = "zfs set volsize=" /\ IsDigits(At(s, i + 1))
       /\ At(s, i + 2) = "KB" /\ IsWs(At(s, i + 3))
       /\ PoolVolAt(s, SkipWs(s, i + 3))
    THEN [ok |-> TRUE, m1 |-> s[i + 1], m2 |-> s[SkipWs(s, i + 3) + 1]]
    ELSE NoMatch

\* variant of snapshotRE: the @snapshot part is optional, as in volumeDestroyRE
SnapshotAt_OptionalSuffix(s, i) ==
    IF At(s, i) = "zfs snapshot" /\ IsWs(At(s, i + 1))
       /\ PoolVolAt(s, SkipWs(s, i + 1))
    THEN LET v == SkipWs(s, i + 1) + 1
         IN  [ok |-> TRUE, m1 |-> s[v],
              m2 |-> IF At(s, v + 1) = "@" /\ IsSnapshot(At(s, v + 2))
                     THEN s[v + 2] ELSE ""]
    ELSE NoMatch

\* snapshotRE at position i:
\* zfs snapshot\s+pool\d+\/(volume-[a-f0-9\-]+_\d+)\@(snapshot-[a-f0-9\-]+)
SnapshotAt(s, i) ==
    IF At(s, i) = "zfs snapshot" /\ IsWs(At(s, i + 1))
       /\ PoolVolAt(s, SkipWs(s, i + 1))
       /\ At(s, SkipWs(s, i + 1) + 2) = "@"
       /\ IsSnapshot(At(s, SkipWs(s, i + 1) + 3))
    THEN [ok |-> TRUE, m1 |-> s[SkipWs(s, i + 1) + 1],
          m2 |-> s[SkipWs(s, i + 1) + 3]]
    ELSE NoMatch

\* variant of volumeDestroyRE: the snapshot group is never taken
DestroyAt_NoSnapshot(s, i) ==
    IF At(s, i) = "zfs destroy" /\ IsWs(At(s, i + 1))
       /\ PoolVolAt(s, SkipWs(s, i + 1))
    THEN [ok |-> TRUE, m1 |-> s[SkipWs(s, i + 1) + 1], m2 |-> ""]
    ELSE NoMatch

\* volumeDestroyRE at position i:
\* zfs destroy\s+pool\d+\/(volume-[a-f0-9\-]+_\d+)(?:\@(snapshot-[a-f0-9\-]+))?
DestroyAt(s, i) ==
    IF At(s, i) = "zfs destroy" /\ IsWs(At(s, i + 1))
       /\ PoolVolAt(s, SkipWs(s, i + 1))
    THEN LET v == SkipWs(s, i + 1) + 1
         IN  [ok |-> TRUE, m1 |-> s[v],
              m2 |-> IF At(s, v + 1) = "@" /\ IsSnapshot(At(s, v + 2))
                     THEN s[v + 2] ELSE ""]
    ELSE NoMatch

\* FindStringSubmatch: the leftmost match of the expression in the command
volumeCreateRE(s) ==
    IF \E i \in 1..Len(s) : CreateAt(s, i).ok
    THEN CreateAt(s, MinOf({i \in 1..Len(s) : CreateAt(s, i).ok}))
    ELSE NoMatch

volResizeRE(s) ==
    IF \E i \in 1..Len(s) : ResizeAt(s, i).ok
    THEN ResizeAt(s, MinOf({i \in 1..Len(s) : ResizeAt(s, i).ok}))
    ELSE NoMatch

snapshotRE(s) ==
    IF \E i \in 1..Len(s) : SnapshotAt(s, i).ok
    THEN SnapshotAt(s, MinOf({i \in 1..Len(s) : SnapshotAt(s, i).ok}))
    ELSE NoMatch

volumeDestroyRE(s) ==
    IF \E i \in 1..Len(s) : DestroyAt(s, i).ok
    THEN DestroyAt(s, MinOf({i \in 1..Len(s) : DestroyAt(s, i).ok}))
    ELSE NoMatch

(***************************************************************************)
(* models.ZFSEvent and Watcher.parseEvent.                                 *)
(***************************************************************************)
EventVolumeCreated == "VOLUME_CREATED"
EventVolumeDeleted == "VOLUME_DELETED"
EventSnapshotCreated == "SNAPSHOT_CREATED"
EventSnapshotDeleted == "SNAPSHOT_DELETED"
EventVolumeResized == "VOLUME_RESIZED"

\* models.ZFSEvent{Pool: pool}, every other field at its zero value
ZFSEvent(pool) ==
    [Timestamp |-> NoTime, Command |-> <<>>, Pool |-> pool, Type |-> "",
     Target |-> "", VolumeID |-> "", SnapshotID |-> "", Size |-> ""]

\* parseEvent(line, pool): err is "" when an event is returned
parseEvent(line, pool) ==
    LET sp == FirstSpace(line)
        timestamp == SubSeq(line, 1, sp - 1)
        command == SubSeq(line, sp + 1, Len(line))
        t == ParseTime(timestamp)
        event == [ZFSEvent(pool) EXCEPT !.Timestamp = t, !.Command = command]
        mc == volumeCreateRE(command)
        mr == volResizeRE(command)
        ms == snapshotRE(command)
        md == volumeDestroyRE(command)
    IN  IF sp = 0
        THEN [err |-> "invalid format", event |-> ZFSEvent(pool)]
        ELSE IF t = NoTime
        THEN [err |-> "invalid timestamp", event |-> ZFSEvent(pool)]
        ELSE IF mc.ok
        THEN [err |-> "",
              event |-> [event EXCEPT !.Type = EventVolumeCreated,
                                      !.VolumeID = mc.m3,
                                      !.Target = mc.m3,
                                      !.Size = mc.m2]]
        ELSE IF mr.ok
        THEN [err |-> "",
              event |-> [event EXCEPT !.Type = EventVolumeResized,
                                      !.VolumeID = mr.m2,
                                      !.Target = mr.m2,
                                      !.Size = mr.m1]]
        ELSE IF ms.ok
        THEN [err |-> "",
              event |-> [event EXCEPT !.Type = EventSnapshotCreated,
                                      !.VolumeID = ms.m1,
                                      !.SnapshotID = ms.m2,
                                      !.Target = ms.m1 \o "@" \o ms.m2]]
        ELSE IF md.ok
        THEN [err |-> "",
              event |-> IF md.m2 # ""
                        THEN [event EXCEPT !.Type = EventSnapshotDeleted,
                                           !.VolumeID = md.m1,
                                           !.SnapshotID = md.m2,
                                           !.Target = md.m1 \o "@" \o md.m2]
                        ELSE [event EXCEPT !.Type = EventVolumeDeleted,
                                           !.VolumeID = md.m1,
                                           !.Target = md.m1]]
        ELSE [err |-> "not a matching event", event |-> event]

(***************************************************************************)
(* The watcher, its scheduler and the history it reads.                    *)
(***************************************************************************)
VARIABLES
    config,          \* Watcher.config: Pools, Interval, SinceTime, SinceEvent
    lastEvents,      \* Watcher.lastEvents: command text -> time
    eventHandlers,   \* Watcher.eventHandlers, in registration order
    seenSinceEvent,  \* Watcher.seenSinceEvent
    pc,              \* where Start is: "new", "fetch", "scan", "ticker", "panic"
    initialize,      \* the initialize argument of the passes Start is making
    pool,            \* index in config.Pools of the pool Start is at
    output,          \* processPoolHistory: the output of `zpool history`
    lineNo,          \* processPoolHistory: the line the scanner is at
    hist,            \* the history lines of every pool (the history source)
    now,             \* the clock of the machine that writes the history
    calls,           \* the handler invocations made so far, in order
    initLen,         \* per pool: history length at its initialization pass
    scanned,         \* per pool: history length at its last completed pass
    markerAt,        \* <<pool, line>> where the marker was observed
    tickStart,       \* the number of handler invocations made before the
                     \* tick Start is in began
    query,           \* the last historical query: its call and what it returned
    classified       \* a line handed to parseEvent and what it returned

vars == <<config, lastEvents, eventHandlers, seenSinceEvent, pc, initialize,
          pool, output, lineNo, hist, now, calls, initLen, scanned, markerAt,
          tickStart, query, classified>>

PoolIds == 1..NPools
PoolNames == [i \in PoolIds |-> "pool" \o ToString(i)]
PoolName(i) == PoolNames[i]
PoolIdx(name) == CHOOSE i \in PoolIds : PoolName(i) = name
HandlerIds == 1..MaxHandlers

\* the first line `zpool history <pool>` prints
Header(p) == <<"History for", " ", "'" \o p \o "':">>

\* the commands the environment runs against pool p
CmdCreate(p) ==
    <<"zfs create", " ", "-s -V", " ", "1024", "KB", " ", p \o "/", "volume-a_0">>
CmdDestroy(p) == <<"zfs destroy", " ", p \o "/", "volume-a_0">>
CmdScrub(p) == <<"zpool scrub", " ", p>>
Commands(p) == {CmdCreate(p), CmdDestroy(p), CmdScrub(p)}
PoolCommands == [i \in PoolIds |-> Commands(PoolName(i))]

\* a history line: timestamp, space, command text
HistLine(t, cmd) == <<StampText(t), " ">> \o cmd

\* the configurations: with and without a cutoff time, with and without a
\* marker, with a valid and with a zero poll interval
Marker == <<"zfs destroy">>
Configs ==
    [Pools : {PoolNames},
     Interval : {0, 5},
     SinceTime : {NoTime, 1},
     SinceEvent : {<<>>, Marker}]

\* no historical query has been made; no line has been handed to parseEvent
NoQuery ==
    [op |-> "none", arg |-> 0, oks |-> <<>>, err |-> "", events |-> <<>>,
     fetched |-> <<>>]
NoLine ==
    [input |-> <<>>, line |-> <<>>, pool |-> "", done |-> FALSE,
     result |-> <<>>]

\* New(config)
New ==
    /\ config \in Configs
    /\ lastEvents = [c \in {} |-> NoTime]
    /\ eventHandlers = <<>>
    /\ seenSinceEvent = (config.SinceEvent = <<>>)
    /\ pc = "new"
    /\ initialize = TRUE
    /\ pool = 1
    /\ output = <<>>
    /\ lineNo = 0
    /\ hist = [i \in PoolIds |-> <<>>]
    /\ now = 1
    /\ calls = <<>>
    /\ initLen = [i \in PoolIds |-> -1]
    /\ scanned = [i \in PoolIds |-> -1]
    /\ markerAt = <<0, 0>>
    /\ tickStart = 0

\* a watcher fresh from New, on which nothing has been called yet
Init == New /\ query = NoQuery /\ classified = NoLine

RECURSIVE SumLen(_, _)
SumLen(h, i) == IF i = 0 THEN 0 ELSE Len(h[i]) + SumLen(h, i - 1)

\* The environment runs a command against pool i at clock value t >= now; the
\* command is appended to the pool's history.  The scanner works on the
\* output it fetched, so a line written during a scan is the same as a line
\* written right after it: appends are taken between scans only.
AppendHistory(i, t, cmd) ==
    /\ pc # "scan"
    /\ SumLen(hist, NPools) < MaxAppends
    /\ t >= now
    /\ hist' = [hist EXCEPT ![i] = Append(@, HistLine(t, cmd))]
    /\ now' = t
    /\ UNCHANGED <<tickStart, query, classified>>
    /\ UNCHANGED <<config, lastEvents, eventHandlers, seenSinceEvent, pc,
                   initialize, pool, output, lineNo, calls, initLen, scanned,
                   markerAt>>

\* w.eventHandlers = append(w.eventHandlers, handler)
AddHandler(hs, h) == Append(hs, h)

\* AddEventHandler(handler), called before Start as every caller does; the
\* handler of the k-th call is the closure named k
AddEventHandler(h) ==
    /\ pc = "new"
    /\ h = Len(eventHandlers) + 1
    /\ eventHandlers' = AddHandler(eventHandlers, h)
    /\ UNCHANGED <<tickStart, query, classified>>
    /\ UNCHANGED <<config, lastEvents, seenSinceEvent, pc, initialize, pool,
                   output, lineNo, hist, now, calls, initLen, scanned,
                   markerAt>>

\* Start: the first pass of the initialization loop is about to begin
Start ==
    /\ pc = "new"
    /\ pc' = "fetch"
    /\ initialize' = TRUE
    /\ pool' = 1
    /\ UNCHANGED <<tickStart, query, classified>>
    /\ UNCHANGED <<config, lastEvents, eventHandlers, seenSinceEvent, output,
                   lineNo, hist, now, calls, initLen, scanned, markerAt>>

\* variant of the return: the tick after the last pool of a tick is run as an
\* initialization loop
Return_InitAgain ==
    /\ output' = <<>>
    /\ lineNo' = 0
    /\ tickStart' = IF ~initialize /\ pool = NPools THEN Len(calls')
                    ELSE tickStart
    /\ IF pool < NPools
       THEN pool' = pool + 1 /\ pc' = "fetch" /\ UNCHANGED initialize
       ELSE IF initialize
       THEN pool' = pool /\ pc' = "ticker" /\ UNCHANGED initialize
       ELSE pool' = 1 /\ pc' = "fetch" /\ initialize' = TRUE

\* processPoolHistory returns: the next pool of the loop, the ticker after the
\* last pool of the initialization loop, the next tick after the last pool of
\* a tick
Return ==
    /\ output' = <<>>
    /\ lineNo' = 0
    /\ tickStart' = IF ~initialize /\ pool = NPools THEN Len(calls')
                    ELSE tickStart
    /\ IF pool < NPools
       THEN pool' = pool + 1 /\ pc' = "fetch" /\ UNCHANGED initialize
       ELSE IF initialize
       THEN pool' = pool /\ pc' = "ticker" /\ UNCHANGED initialize
       ELSE pool' = 1 /\ pc' = "fetch" /\ UNCHANGED initialize

\* time.NewTicker(w.config.Interval) panics on a non-positive interval;
\* otherwise the ticks begin
NewTicker ==
    /\ pc = "ticker"
    /\ IF config.Interval <= 0
       THEN pc' = "panic" /\ UNCHANGED <<initialize, pool, tickStart>>
       ELSE /\ pc' = "fetch" /\ initialize' = FALSE /\ pool' = 1
            /\ tickStart' = Len(calls)
    /\ UNCHANGED <<query, classified>>
    /\ UNCHANGED <<config, lastEvents, eventHandlers, seenSinceEvent, output,
                   lineNo, hist, now, calls, initLen, scanned, markerAt>>

\* variant of the fetch: a failed fetch drops what the tracker has recorded
Fetch_ForgetsOnFailure(ok) ==
    /\ pc = "fetch"
    /\ UNCHANGED <<config, eventHandlers, seenSinceEvent, hist, now, calls,
                   scanned, markerAt>>
    /\ initLen' = IF initialize
                  THEN [initLen EXCEPT ![pool] = Len(hist[pool])]
                  ELSE initLen
    /\ IF ok
       THEN /\ output' = <<Header(config.Pools[pool])>> \o hist[pool]
            /\ lineNo' = 1
            /\ pc' = "scan"
            /\ UNCHANGED <<initialize, pool, lastEvents, tickStart>>
       ELSE Return /\ lastEvents' = [c \in {} |-> NoTime]
    /\ UNCHANGED <<query, classified>>

\* processPoolHistory, the fetch: cmd.Output() fails and the pass returns, or
\* it yields the header and the full history of the pool
Fetch(ok) ==
    /\ pc = "fetch"
    /\ UNCHANGED <<config, lastEvents, eventHandlers, seenSinceEvent, hist,
                   now, calls, scanned, markerAt>>
    /\ initLen' = IF initialize
                  THEN [initLen EXCEPT ![pool] = Len(hist[pool])]
                  ELSE initLen
    /\ IF ok
       THEN /\ output' = <<Header(config.Pools[pool])>> \o hist[pool]
            /\ lineNo' = 1
            /\ pc' = "scan"
            /\ UNCHANGED <<initialize, pool, tickStart>>
       ELSE Return
    /\ UNCHANGED <<query, classified>>

(***************************************************************************)
(* processPoolHistory, one line of the scanner loop.                       *)
(***************************************************************************)
\* strings.Contains(line, "History for") || line == ""
IsHeaderOrEmpty(line) == Contains(line, <<"History for">>) \/ line = <<>>

\* variant of the marker check: made on the command of a parsed line only
IsSinceEvent_OnlyEvents(seen, cfg, line) ==
    /\ ~seen /\ cfg.SinceEvent # <<>>
    /\ FirstSpace(line) # 0
    /\ ParseTime(SubSeq(line, 1, FirstSpace(line) - 1)) # NoTime
    /\ Contains(SubSeq(line, FirstSpace(line) + 1, Len(line)), cfg.SinceEvent)

\* !w.seenSinceEvent && w.config.SinceEvent != "" &&
\* strings.Contains(line, w.config.SinceEvent)
IsSinceEvent(seen, cfg, line) ==
    ~seen /\ cfg.SinceEvent # <<>> /\ Contains(line, cfg.SinceEvent)

\* variant of the dedup gate: an entry at the event's own timestamp does not
\* reject
SeenBefore_NotEqual(last, event) ==
    event.Command \in DOMAIN last
    /\ event.Timestamp # last[event.Command]
    /\ ~(event.Timestamp > last[event.Command])

\* variant of the dedup gate: Before(lastTime) in place of !After(lastTime)
SeenBefore_OnlyOlder(last, event) ==
    event.Command \in DOMAIN last
    /\ event.Timestamp < last[event.Command]

\* lastTime, seen := w.lastEvents[event.Command];
\* seen && !event.Timestamp.After(lastTime)
SeenBefore(last, event) ==
    event.Command \in DOMAIN last
    /\ ~(event.Timestamp > last[event.Command])

\* variant of the cutoff gate: After in place of !After
BeforeSinceTime_Inverted(cfg, event) ==
    cfg.SinceTime # NoTime /\ event.Timestamp > cfg.SinceTime

\* variant of the cutoff gate: Before in place of !After
BeforeSinceTime_Before(cfg, event) ==
    cfg.SinceTime # NoTime /\ event.Timestamp < cfg.SinceTime

\* w.config.SinceTime != nil && !event.Timestamp.After(*w.config.SinceTime)
BeforeSinceTime(cfg, event) ==
    cfg.SinceTime # NoTime /\ ~(event.Timestamp > cfg.SinceTime)

\* w.lastEvents[event.Command] = event.Timestamp
UpdateLast(last, event) ==
    [c \in DOMAIN last \cup {event.Command} |->
        IF c = event.Command THEN event.Timestamp ELSE last[c]]

\* variant of the initialization gate: the check is missing
SkipReport_Never(init) == FALSE

\* if initialize { continue }
SkipReport(init) == init

\* variant: lastEvents is updated before the marker gate
CommitsLast_BeforeMarker(gate) ==
    gate \in {"sinceEvent", "initialize", "notify"}

\* variant: lastEvents is updated after the initialization gate
CommitsLast_OnNotify(gate) == gate = "notify"

\* the gates past which the loop body has run
\* w.lastEvents[event.Command] = event.Timestamp
CommitsLast(gate) == gate \in {"initialize", "notify"}

\* variant of the dispatch loop: the handlers are called last to first
Notify_Reversed(handlers, event, line) ==
    [k \in 1..Len(handlers) |->
        [handler |-> handlers[Len(handlers) + 1 - k], event |-> event,
         line |-> line]]

\* for _, handler := range w.eventHandlers { handler(event) }
Notify(handlers, event, line) ==
    [k \in 1..Len(handlers) |->
        [handler |-> handlers[k], event |-> event, line |-> line]]

\* variant of the loop body: the error of parseEvent is not looked at
Gate_IgnoresError(line, poolName, init, seen, last, cfg) ==
    LET r == parseEvent(line, poolName)
    IN  IF IsHeaderOrEmpty(line) THEN "header"
        ELSE IF IsSinceEvent(seen, cfg, line) THEN "marker"
        ELSE IF SeenBefore(last, r.event) THEN "seen"
        ELSE IF BeforeSinceTime(cfg, r.event) THEN "sinceTime"
        ELSE IF ~seen THEN "sinceEvent"
        ELSE IF SkipReport(init) THEN "initialize"
        ELSE "notify"

\* what the loop body does with a line: the gate that ends it
Gate(line, poolName, init, seen, last, cfg) ==
    LET r == parseEvent(line, poolName)
    IN  IF IsHeaderOrEmpty(line) THEN "header"
        ELSE IF IsSinceEvent(seen, cfg, line) THEN "marker"
        ELSE IF r.err # "" THEN "error"
        ELSE IF SeenBefore(last, r.event) THEN "seen"
        ELSE IF BeforeSinceTime(cfg, r.event) THEN "sinceTime"
        ELSE IF ~seen THEN "sinceEvent"
        ELSE IF SkipReport(init) THEN "initialize"
        ELSE "notify"

\* variant of the loop body: the invocations are put before the earlier ones
ProcessLine_Prepends ==
    /\ pc = "scan"
    /\ \E r \in {parseEvent(output[lineNo], config.Pools[pool])} :
       \E gate \in {Gate(output[lineNo], config.Pools[pool], initialize,
                         seenSinceEvent, lastEvents, config)} :
           /\ seenSinceEvent' = (seenSinceEvent \/ gate = "marker")
           /\ markerAt' = IF gate = "marker" THEN <<pool, lineNo>>
                          ELSE markerAt
           /\ lastEvents' = IF CommitsLast(gate)
                            THEN UpdateLast(lastEvents, r.event)
                            ELSE lastEvents
           /\ calls' = IF gate = "notify"
                       THEN Notify(eventHandlers, r.event, lineNo) \o calls
                       ELSE calls
    /\ IF lineNo < Len(output)
       THEN /\ lineNo' = lineNo + 1
            /\ UNCHANGED <<pc, initialize, pool, output, scanned, tickStart>>
       ELSE /\ scanned' = [scanned EXCEPT ![pool] = Len(output) - 1]
            /\ Return
    /\ UNCHANGED <<query, classified>>
    /\ UNCHANGED <<config, eventHandlers, hist, now, initLen>>

\* one turn of the loop body on the line the scanner is at; the classifier
\* and the gates are evaluated once, on the state before the step
ProcessLine ==
    /\ pc = "scan"
    /\ \E r \in {parseEvent(output[lineNo], config.Pools[pool])} :
       \E gate \in {Gate(output[lineNo], config.Pools[pool], initialize,
                         seenSinceEvent, lastEvents, config)} :
           /\ seenSinceEvent' = (seenSinceEvent \/ gate = "marker")
           /\ markerAt' = IF gate = "marker" THEN <<pool, lineNo>>
                          ELSE markerAt
           /\ lastEvents' = IF CommitsLast(gate)
                            THEN UpdateLast(lastEvents, r.event)
                            ELSE lastEvents
           /\ calls' = IF gate = "notify"
                       THEN calls \o Notify(eventHandlers, r.event, lineNo)
                       ELSE calls
    /\ IF lineNo < Len(output)
       THEN /\ lineNo' = lineNo + 1
            /\ UNCHANGED <<pc, initialize, pool, output, scanned, tickStart>>
       ELSE /\ scanned' = [scanned EXCEPT ![pool] = Len(output) - 1]
            /\ Return
    /\ UNCHANGED <<query, classified>>
    /\ UNCHANGED <<config, eventHandlers, hist, now, initLen>>

Next ==
    \/ \E i \in PoolIds, t \in 1..MaxTime :
          \E cmd \in PoolCommands[i] : AppendHistory(i, t, cmd)
    \/ \E h \in HandlerIds : AddEventHandler(h)
    \/ Start
    \/ NewTicker
    \/ \E ok \in BOOLEAN : Fetch(ok)
    \/ ProcessLine

Spec == Init /\ [][Next]_vars

(***************************************************************************)
(* The historical queries: GetEventsSince, GetRecentEvents and             *)
(* GetEventsSinceEvent.  A query fetches the pools one after the other;    *)
(* oks[i] tells whether its fetch of pool i succeeds.  The result of a     *)
(* query depends on the histories only, and a line appended to a pool      *)
(* after the query fetched it does not reach the query: a query is one     *)
(* step on the histories as they are.                                      *)
(***************************************************************************)
Outcomes == [PoolIds -> BOOLEAN]
QueryTimes == 0..MaxTime
QueryDurations == 0..MaxTime
QueryMarkers == {Marker, <<"zfs snapshot">>, <<"zpool scrub">>}

\* cmd.Output() of `zpool history <pool>`
HistoryOutput(i) == <<Header(PoolName(i))>> \o hist[i]

\* variant of the time filter: !Before in place of After
IsAfter_OrEqual(event, sinceTime) == event.Timestamp >= sinceTime

\* event.Timestamp.After(sinceTime)
IsAfter(event, sinceTime) == event.Timestamp > sinceTime

\* getPoolEventsSince, the scanner loop from line i of the output on
RECURSIVE ScanSince(_, _, _, _)
ScanSince(out, name, sinceTime, i) ==
    IF i > Len(out) THEN <<>>
    ELSE LET r == parseEvent(out[i], name)
             rest == ScanSince(out, name, sinceTime, i + 1)
         IN  IF IsHeaderOrEmpty(out[i]) THEN rest
             ELSE IF r.err # "" THEN rest
             ELSE IF IsAfter(r.event, sinceTime) THEN <<r.event>> \o rest
             ELSE rest

\* getPoolEventsSince(pool, sinceTime)
getPoolEventsSince(i, sinceTime, ok) ==
    IF ~ok
    THEN [err |-> "error getting history", events |-> <<>>]
    ELSE [err |-> "",
          events |-> ScanSince(HistoryOutput(i), PoolName(i), sinceTime, 1)]

\* variant of the error return: the events collected so far are returned
FailedQuery_Partial(err, events, fetched) ==
    [err |-> err, events |-> events, fetched |-> fetched]

\* return nil, err
FailedQuery(err, events, fetched) ==
    [err |-> err, events |-> <<>>, fetched |-> fetched]

\* GetEventsSince, the loop over the pools from pool i on; fetched lists the
\* pools whose history the query has asked for
RECURSIVE EventsSinceLoop(_, _, _, _, _)
EventsSinceLoop(i, sinceTime, oks, events, fetched) ==
    IF i > NPools
    THEN [err |-> "", events |-> events, fetched |-> fetched]
    ELSE LET r == getPoolEventsSince(i, sinceTime, oks[i])
         IN  IF r.err # ""
             THEN FailedQuery(r.err, events, Append(fetched, i))
             ELSE EventsSinceLoop(i + 1, sinceTime, oks, events \o r.events,
                                  Append(fetched, i))

\* GetEventsSinceEvent, the scanner loop from line i of the output on;
\* found is foundEvent
RECURSIVE ScanSinceEvent(_, _, _, _, _)
ScanSinceEvent(out, name, sinceEventCmd, found, i) ==
    IF i > Len(out) THEN [found |-> found, events |-> <<>>]
    ELSE IF IsHeaderOrEmpty(out[i])
    THEN ScanSinceEvent(out, name, sinceEventCmd, found, i + 1)
    ELSE IF ~found /\ Contains(out[i], sinceEventCmd)
    THEN ScanSinceEvent(out, name, sinceEventCmd, TRUE, i + 1)
    ELSE LET r == parseEvent(out[i], name)
             rest == ScanSinceEvent(out, name, sinceEventCmd, found, i + 1)
         IN  IF found /\ r.err = ""
             THEN [rest EXCEPT !.events = <<r.event>> \o @]
             ELSE rest

\* variant of the final check: an empty result is taken for a missing marker
SinceEventResult_EmptyIsError(found, events, fetched) ==
    IF events = <<>>
    THEN FailedQuery("not found in history", events, fetched)
    ELSE [err |-> "", events |-> events, fetched |-> fetched]

\* if !foundEvent { return nil, error }; return events, nil
SinceEventResult(found, events, fetched) ==
    IF ~found
    THEN FailedQuery("not found in history", events, fetched)
    ELSE [err |-> "", events |-> events, fetched |-> fetched]

\* GetEventsSinceEvent, the loop over the pools from pool i on and the check
\* that follows it; foundEvent is declared before the loop and is carried
\* from one pool to the next
RECURSIVE EventsSinceEventLoop(_, _, _, _, _, _)
EventsSinceEventLoop(i, sinceEventCmd, oks, found, events, fetched) ==
    IF i > NPools
    THEN SinceEventResult(found, events, fetched)
    ELSE IF ~oks[i]
    THEN FailedQuery("error getting history", events, Append(fetched, i))
    ELSE LET r == ScanSinceEvent(HistoryOutput(i), PoolName(i),
                                 sinceEventCmd, found, 1)
         IN  EventsSinceEventLoop(i + 1, sinceEventCmd, oks, r.found,
                                  events \o r.events, Append(fetched, i))

\* what a query returned, with the call it answers
Answer(op, arg, oks, r) ==
    [op |-> op, arg |-> arg, oks |-> oks, err |-> r.err, events |-> r.events,
     fetched |-> r.fetched]

\* variant of the queries: the last event returned is recorded as seen
TrackerAfterQuery_Records(last, events) ==
    IF events = <<>> THEN last ELSE UpdateLast(last, events[Len(events)])

\* the queries collect into a local slice; w.lastEvents is not written
TrackerAfterQuery(last, events) == last

\* the one query a behaviour looks at returns: the watcher is as it was but
\* for what the query wrote.  A query leaves nothing behind that a later
\* query reads, so a second query sees what a first query in its place sees.
Answered(a) ==
    /\ query = NoQuery
    /\ \E answer \in {a} :
          /\ query' = answer
          /\ lastEvents' = TrackerAfterQuery(lastEvents, answer.events)
    /\ UNCHANGED <<config, eventHandlers, seenSinceEvent, pc, initialize,
                   pool, output, lineNo, hist, now, calls, initLen, scanned,
                   markerAt, tickStart, classified>>

\* GetEventsSince(sinceTime)
GetEventsSince(sinceTime, oks) ==
    Answered(Answer("GetEventsSince", sinceTime, oks,
                    EventsSinceLoop(1, sinceTime, oks, <<>>, <<>>)))

\* GetRecentEvents(duration): GetEventsSince(time.Now().Add(-duration))
GetRecentEvents(duration, oks) ==
    Answered(Answer("GetRecentEvents", duration, oks,
                    EventsSinceLoop(1, now - duration, oks, <<>>, <<>>)))

\* GetEventsSinceEvent(sinceEventCmd)
GetEventsSinceEvent(sinceEventCmd, oks) ==
    Answered(Answer("GetEventsSinceEvent", sinceEventCmd, oks,
        EventsSinceEventLoop(1, sinceEventCmd, oks, FALSE, <<>>, <<>>)))

\* the commands that write the histories, and the queries of a caller that
\* does not start the watcher
NextQuery ==
    \/ \E i \in PoolIds, t \in 1..MaxTime :
          \E cmd \in PoolCommands[i] : AppendHistory(i, t, cmd)
    \/ \E t \in QueryTimes, oks \in Outcomes : GetEventsSince(t, oks)
    \/ \E d \in QueryDurations, oks \in Outcomes : GetRecentEvents(d, oks)
    \/ \E m \in QueryMarkers, oks \in Outcomes : GetEventsSinceEvent(m, oks)

\* watcher.New(watcher.Config{Pools: ...}) as the callers of the queries
\* configure it: no interval, no cutoff, no marker
InitQuery ==
    /\ Init
    /\ config.Interval = 0
    /\ config.SinceTime = NoTime
    /\ config.SinceEvent = <<>>

SpecQuery == InitQuery /\ [][NextQuery]_vars

\* the watcher polling with at most one handler while volumes are destroyed
\* and, at any point of it, a caller making a query whose fetches succeed
AllFetched == [i \in PoolIds |-> TRUE]
NextMixed ==
    \/ \E i \in PoolIds, t \in 1..MaxTime :
          AppendHistory(i, t, CmdDestroy(PoolName(i)))
    \/ AddEventHandler(1)
    \/ Start
    \/ NewTicker
    \/ \E ok \in BOOLEAN : Fetch(ok)
    \/ ProcessLine
    \/ GetEventsSince(0, AllFetched)
    \/ GetRecentEvents(1, AllFetched)
    \/ GetEventsSinceEvent(Marker, AllFetched)

\* a watcher that polls: a positive interval and no cutoff, with and without
\* a marker
InitMixed ==
    /\ Init
    /\ config.Interval > 0
    /\ config.SinceTime = NoTime

SpecMixed == InitMixed /\ [][NextMixed]_vars

(***************************************************************************)
(* Histories with lines that are not events: the output of `zpool          *)
(* history` is text, and the scanner loops take whatever lines it has.     *)
(***************************************************************************)
\* a line without a space (len(parts) != 2), and a line whose first field
\* is not a timestamp while the rest is a destroy command
NoSpaceLine == <<"garbage">>
BadStampLine(p) == <<"yesterday", " ">> \o CmdDestroy(p)
GarbledLines == [i \in PoolIds |-> {NoSpaceLine, BadStampLine(PoolName(i))}]

\* the history of pool i gets a line that is not of the form
\* `<timestamp> <command>`
AppendGarbled(i, line) ==
    /\ pc # "scan"
    /\ SumLen(hist, NPools) < MaxAppends
    /\ hist' = [hist EXCEPT ![i] = Append(@, line)]
    /\ UNCHANGED <<tickStart, query, classified>>
    /\ UNCHANGED <<config, lastEvents, eventHandlers, seenSinceEvent, pc,
                   initialize, pool, output, lineNo, now, calls, initLen,
                   scanned, markerAt>>

\* the watcher polling with at most one handler over histories of volume
\* creations, scrubs and garbled lines written within one second, and a
\* caller making a query
NextGarbled ==
    \/ \E i \in PoolIds :
          \E cmd \in {CmdCreate(PoolName(i)), CmdScrub(PoolName(i))} :
             AppendHistory(i, now, cmd)
    \/ \E i \in PoolIds : \E line \in GarbledLines[i] : AppendGarbled(i, line)
    \/ AddEventHandler(1)
    \/ Start
    \/ NewTicker
    \/ \E ok \in BOOLEAN : Fetch(ok)
    \/ ProcessLine
    \/ GetEventsSince(0, AllFetched)
    \/ GetEventsSinceEvent(Marker, AllFetched)

\* a watcher that polls: a positive interval and no cutoff, with and without
\* a marker
InitGarbled ==
    /\ Init
    /\ config.Interval > 0
    /\ config.SinceTime = NoTime

SpecGarbled == InitGarbled /\ [][NextGarbled]_vars

(***************************************************************************)
(* parseEvent on its own: a history line put together from its parts is    *)
(* handed to parseEvent, as the scanner loops do with every line they read. *)
(***************************************************************************)
\* the parts of a line: what stands before the command, the command, its
\* size option and number, the pool and dataset it names, what follows "@"
ParseInputs ==
    [stamp : {"time", "text", "none"},
     verb : {"create", "set", "snapshot", "destroy", "scrub"},
     flag : {"", "-s -V", "-V"},
     kb : {"1024", "2048"},
     pool : {"pool1/", "tank/"},
     vol : {"volume-a_0", "vol-x"},
     suffix : {"", "snapshot-c", "backup"}]

\* the text of the line
Render(inp) ==
    LET stamp == CASE inp.stamp = "time" -> <<StampText(1), " ">>
                   [] inp.stamp = "text" -> <<"yesterday", " ">>
                   [] OTHER -> <<>>
        flag == IF inp.flag = "" THEN <<>>
                ELSE <<inp.flag, " ", inp.kb, "KB", " ">>
        dataset == <<inp.pool, inp.vol>>
                   \o (IF inp.suffix = "" THEN <<>> ELSE <<"@", inp.suffix>>)
        command == CASE inp.verb = "create" ->
                          <<"zfs create", " ">> \o flag \o dataset
                     [] inp.verb = "set" ->
                          <<"zfs set volsize=", inp.kb, "KB", " ">> \o dataset
                     [] inp.verb = "snapshot" ->
                          <<"zfs snapshot", " ">> \o dataset
                     [] inp.verb = "destroy" ->
                          <<"zfs destroy", " ">> \o dataset
                     [] OTHER -> <<"zpool scrub", " ", "pool1">>
    IN  stamp \o command

\* a watcher whose scanner is about to hand a line of a pool to parseEvent
InitParse ==
    /\ New
    /\ config.Interval > 0
    /\ config.SinceTime = NoTime
    /\ config.SinceEvent = <<>>
    /\ query = NoQuery
    /\ \E inp \in ParseInputs, i \in PoolIds :
          classified = [input |-> inp, line |-> Render(inp),
                        pool |-> PoolName(i), done |-> FALSE,
                        result |-> <<>>]

\* event, err := w.parseEvent(line, pool)
Classify ==
    /\ ~classified.done
    /\ classified' =
          [classified EXCEPT !.done = TRUE,
                             !.result = parseEvent(classified.line,
                                                   classified.pool)]
    /\ UNCHANGED <<config, lastEvents, eventHandlers, seenSinceEvent, pc,
                   initialize, pool, output, lineNo, hist, now, calls,
                   initLen, scanned, markerAt, tickStart, query>>

SpecParse == InitParse /\ [][Classify]_vars

(***************************************************************************)
(* Vocabulary of the properties.                                           *)
(***************************************************************************)
\* the line the scanner is at and what the classifier makes of it
CurLine == output[lineNo]
CurParse == parseEvent(CurLine, config.Pools[pool])
CurEvent == CurParse.event
\* the scanner is at a line that the classifier turns into an event
AtEvent == pc = "scan" /\ ~IsHeaderOrEmpty(CurLine) /\ CurParse.err = ""
\* the position in the pool's history of the line the scanner is at
CurIndex == lineNo - 1
\* the event has no recorded lastSeen at or after its timestamp
PassesDedup ==
    \/ CurEvent.Command \notin DOMAIN lastEvents
    \/ lastEvents[CurEvent.Command] < CurEvent.Timestamp
\* no cutoff is configured, or the event is strictly after it
PassesCutoff ==
    config.SinceTime = NoTime \/ CurEvent.Timestamp > config.SinceTime
\* the handler invocations this step makes
NewCalls == SubSeq(calls', Len(calls) + 1, Len(calls'))
\* this step invokes every registered handler with the event
DispatchedNow(ev) ==
    \A k \in 1..Len(eventHandlers) :
        \E j \in 1..Len(NewCalls) :
            NewCalls[j].handler = eventHandlers[k] /\ NewCalls[j].event = ev
\* two invocations are for the same event: same command text, same timestamp
SameEvent(a, b) ==
    a.event.Command = b.event.Command /\ a.event.Timestamp = b.event.Timestamp

(***************************************************************************)
(* C1: at-most-once delivery.  Over the initialization pass and any number *)
(* of steady ticks, no handler is invoked more than once for the same      *)
(* event (same command text, same timestamp).                              *)
(***************************************************************************)
C1_AtMostOnce ==
    \A i, j \in 1..Len(calls) :
        (i # j /\ calls[i].handler = calls[j].handler)
            => ~SameEvent(calls[i], calls[j])

\* a steady pass is re-scanning a line whose event was delivered by an
\* earlier, completed pass
C1_Witness ==
    /\ AtEvent /\ ~initialize
    /\ scanned[pool] >= CurIndex
    /\ \E k \in 1..Len(calls) :
          calls[k].event = CurEvent /\ calls[k].line = lineNo

(***************************************************************************)
(* C2, as stated: every classified line appended after the initialization  *)
(* pass, with the marker seen (or none configured) and a timestamp after   *)
(* the cutoff (or none configured), is dispatched to the handlers by the   *)
(* first steady pass that reads it.                                        *)
(***************************************************************************)
C2_EveryAppendedLineDelivered ==
    [][(/\ AtEvent /\ ~initialize
        /\ CurIndex > initLen[pool] /\ CurIndex > scanned[pool]
        /\ seenSinceEvent /\ PassesCutoff)
       => DispatchedNow(CurEvent)]_vars

(***************************************************************************)
(* C2, amended: such a line is dispatched to every handler by the first    *)
(* steady pass that reads it provided its command has no recorded lastSeen *)
(* at or after its timestamp; and no step invokes a handler for an event   *)
(* that an earlier step delivered.                                         *)
(***************************************************************************)
C2_NewEventDelivered ==
    [][/\ (/\ AtEvent /\ ~initialize
           /\ CurIndex > initLen[pool] /\ CurIndex > scanned[pool]
           /\ seenSinceEvent /\ PassesCutoff /\ PassesDedup)
          => DispatchedNow(CurEvent)
       /\ \A j \in 1..Len(NewCalls), i \in 1..Len(calls) :
             ~SameEvent(NewCalls[j], calls[i])]_vars

\* a creation delivered from one line and, later, the deletion delivered
\* from a line appended after it
C2_Witness ==
    \E i, j \in 1..Len(calls) :
        /\ i < j
        /\ calls[i].event.Type = EventVolumeCreated
        /\ calls[j].event.Type = EventVolumeDeleted
        /\ calls[i].event.Pool = calls[j].event.Pool
        /\ calls[i].line < calls[j].line
        /\ calls[i].line - 1 > initLen[PoolIdx(calls[i].event.Pool)]

(***************************************************************************)
(* C3: idempotence under re-scan.  For every configuration, a pass over a  *)
(* pool that reads the same history output as the previous completed pass  *)
(* over that pool invokes no handler.                                      *)
(***************************************************************************)
C3_RescanDispatchesNothing ==
    [][(pc = "scan" /\ scanned[pool] = Len(output) - 1)
       => calls' = calls]_vars

(***************************************************************************)
(* C4: with a marker configured, no line positioned before the marker line *)
(* in the history is ever dispatched, neither in the pass that observes    *)
(* the marker nor in any later pass.                                       *)
(***************************************************************************)
C4_BeforeMarkerNeverDispatched ==
    \A k \in 1..Len(calls) :
        ~(/\ PoolIdx(calls[k].event.Pool) = markerAt[1]
          /\ calls[k].line < markerAt[2])

(***************************************************************************)
(* C5: the marker line itself is never dispatched to a handler, in any     *)
(* pass, even when it is a classifiable event.                             *)
(***************************************************************************)
C5_MarkerLineNeverDispatched ==
    \A k \in 1..Len(calls) :
        ~(/\ PoolIdx(calls[k].event.Pool) = markerAt[1]
          /\ calls[k].line = markerAt[2])

(***************************************************************************)
(* C6: strict-after cutoff.  With a cutoff T configured, no step invokes a *)
(* handler for an event with timestamp at or before T, and an event with   *)
(* timestamp T + 1 that passes the marker and dedup gates in a steady pass *)
(* is dispatched to every handler.                                         *)
(***************************************************************************)
C6_StrictAfterCutoff ==
    [][config.SinceTime # NoTime =>
         /\ \A j \in 1..Len(NewCalls) :
               NewCalls[j].event.Timestamp > config.SinceTime
         /\ (/\ AtEvent /\ ~initialize /\ seenSinceEvent /\ PassesDedup
             /\ CurEvent.Timestamp = config.SinceTime + 1)
            => DispatchedNow(CurEvent)]_vars

\* an event at T + 1 was delivered, and a steady pass has read an event line
\* with timestamp T that the initialization pass had not read
C6_Witness ==
    /\ config.SinceTime # NoTime
    /\ \E k \in 1..Len(calls) :
          calls[k].event.Timestamp = config.SinceTime + 1
    /\ \E i \in PoolIds : \E n \in 1..Len(hist[i]) :
          /\ n > initLen[i] /\ n <= scanned[i] /\ ~initialize
          /\ parseEvent(hist[i][n], PoolName(i)).err = ""
          /\ parseEvent(hist[i][n], PoolName(i)).event.Timestamp
                = config.SinceTime

(***************************************************************************)
(* C7: the initialization pass dispatches nothing.  No step of a pass made *)
(* with initialize = true invokes a handler.                               *)
(***************************************************************************)
C7_InitDispatchesNothing ==
    [][initialize => calls' = calls]_vars

\* the initialization pass has accepted an event with a handler registered
C7_Witness ==
    /\ initialize /\ pc = "scan"
    /\ Len(eventHandlers) >= 1
    /\ DOMAIN lastEvents # {}

(***************************************************************************)
(* C8: no historical noise.  An event whose line was in the pool's history *)
(* at the initialization pass of that pool is never dispatched, for every  *)
(* configuration and every outcome of the fetches.                         *)
(***************************************************************************)
C8_NoHistoricalNoise ==
    \A k \in 1..Len(calls) :
        calls[k].line - 1 > initLen[PoolIdx(calls[k].event.Pool)]

(***************************************************************************)
(* C9, as stated: an event that passes the marker gate and the dedup gate  *)
(* gets lastSeen[command] set to its timestamp, whatever the cutoff gate   *)
(* and the initialization gate decide.                                     *)
(***************************************************************************)
C9_CommittedBeforeLaterGates ==
    [][(AtEvent /\ seenSinceEvent /\ PassesDedup)
       => /\ CurEvent.Command \in DOMAIN lastEvents'
          /\ lastEvents'[CurEvent.Command] = CurEvent.Timestamp]_vars

(***************************************************************************)
(* C9, amended: an event that passes the marker gate, the dedup gate and   *)
(* the cutoff gate gets lastSeen[command] set to its timestamp even when   *)
(* the initialization gate rejects it; an event the cutoff gate rejects    *)
(* leaves lastSeen unchanged.                                              *)
(***************************************************************************)
C9_CommittedBeforeInitGate ==
    [][/\ (AtEvent /\ seenSinceEvent /\ PassesDedup /\ PassesCutoff)
          => /\ CurEvent.Command \in DOMAIN lastEvents'
             /\ lastEvents'[CurEvent.Command] = CurEvent.Timestamp
       /\ (AtEvent /\ ~PassesCutoff) => lastEvents' = lastEvents]_vars

\* with a cutoff configured, the initialization passes have recorded an event
\* and have read an event line at or before the cutoff, whose command has no
\* recorded lastSeen
C9_Witness ==
    /\ initialize /\ config.SinceTime # NoTime
    /\ DOMAIN lastEvents # {}
    /\ \E i \in PoolIds : \E n \in 1..Len(hist[i]) :
          /\ n <= scanned[i]
          /\ parseEvent(hist[i][n], PoolName(i)).err = ""
          /\ parseEvent(hist[i][n], PoolName(i)).event.Timestamp
                <= config.SinceTime
          /\ parseEvent(hist[i][n], PoolName(i)).event.Command
                \notin DOMAIN lastEvents

(***************************************************************************)
(* C10: dispatch fan-out.  A step that accepts an event in a steady pass   *)
(* invokes every registered handler exactly once with that event, in       *)
(* registration order, and invokes nothing else; AddEventHandler appends   *)
(* and keeps the earlier handlers in place.                                *)
(***************************************************************************)
C10_FanOut ==
    [][/\ (/\ AtEvent /\ ~initialize /\ seenSinceEvent
           /\ PassesDedup /\ PassesCutoff)
          => /\ Len(NewCalls) = Len(eventHandlers)
             /\ \A k \in 1..Len(NewCalls) :
                   /\ NewCalls[k].handler = k
                   /\ NewCalls[k].handler = eventHandlers[k]
                   /\ NewCalls[k].event = CurEvent
       /\ Len(calls') >= Len(calls)
       /\ SubSeq(calls', 1, Len(calls)) = calls
       /\ eventHandlers' # eventHandlers
          => /\ Len(eventHandlers') = Len(eventHandlers) + 1
             /\ SubSeq(eventHandlers', 1, Len(eventHandlers)) = eventHandlers
      ]_vars

\* two events have been dispatched to two handlers
C10_Witness ==
    /\ Len(eventHandlers) = 2
    /\ Len(calls) >= 4
    /\ calls[1].event # calls[3].event

(***************************************************************************)
(* C11: a failed history fetch in a steady tick skips that pool's pass     *)
(* only.  The step dispatches nothing, leaves lastSeen and markerSeen as   *)
(* they are and moves on to the next pool of the tick, or to the first     *)
(* pool of the next tick; every steady pass, failed or not, hands over to  *)
(* the next pool in the cyclic order, so the failed pool is fetched again  *)
(* in the next tick.                                                       *)
(***************************************************************************)
C11_FetchFailureSkipsPass ==
    [][/\ (/\ pc = "fetch" /\ ~initialize /\ pc' # "scan"
           /\ UNCHANGED <<hist, query, classified>>)
          => /\ UNCHANGED <<calls, lastEvents, seenSinceEvent, eventHandlers>>
             /\ pc' = "fetch" /\ ~initialize'
             /\ pool' = IF pool < NPools THEN pool + 1 ELSE 1
       /\ (~initialize /\ pool' # pool)
          => /\ pc' = "fetch"
             /\ pool' = IF pool < NPools THEN pool + 1 ELSE 1]_vars

\* no fetch of the first pool has ever succeeded, a tick has gone on to
\* dispatch an event of the second pool, and the first pool has been fetched
\* again
C11_Witness ==
    /\ ~initialize /\ pc = "scan" /\ pool = 1
    /\ scanned[1] = -1
    /\ \E k \in 1..Len(calls) : calls[k].event.Pool = PoolName(2)

(***************************************************************************)
(* Vocabulary of the properties of the historical queries.                 *)
(***************************************************************************)
\* this step is a query returning
QueryReturns == query = NoQuery /\ query' # NoQuery
\* the first pool whose fetch fails under the outcomes oks, 0 when none does
FirstFailure(oks) ==
    IF \E i \in PoolIds : ~oks[i] THEN MinOf({i \in PoolIds : ~oks[i]}) ELSE 0
\* the events of the lines of pool i from line n on that classify, in line
\* order
RECURSIVE ClassifiedFrom(_, _)
ClassifiedFrom(i, n) ==
    IF n > Len(hist[i]) THEN <<>>
    ELSE IF parseEvent(hist[i][n], PoolName(i)).err = ""
    THEN <<parseEvent(hist[i][n], PoolName(i)).event>>
         \o ClassifiedFrom(i, n + 1)
    ELSE ClassifiedFrom(i, n + 1)
\* F[1] \o ... \o F[i]
RECURSIVE Concat(_, _)
Concat(F, i) == IF i = 0 THEN <<>> ELSE Concat(F, i - 1) \o F[i]
\* the lines of pool i that contain the marker m
MarkerLines(i, m) == {n \in 1..Len(hist[i]) : Contains(hist[i][n], m)}

(***************************************************************************)
(* C12: a history-fetch failure makes the whole query fail.  A query one   *)
(* of whose fetches fails returns the fetch error and no events, whatever  *)
(* the earlier pools held, and it has fetched the pools up to the failing  *)
(* one and none after it.                                                  *)
(***************************************************************************)
C12_FetchFailureFailsQuery ==
    [][(QueryReturns /\ FirstFailure(query'.oks) # 0)
       => /\ query'.err = "error getting history"
          /\ query'.events = <<>>
          /\ query'.fetched = [k \in 1..FirstFailure(query'.oks) |-> k]]_vars

\* a query since time 0 read the first pool, which holds an event, and failed
\* on the second pool
C12_Witness ==
    /\ query.op = "GetEventsSince" /\ query.arg = 0
    /\ query.oks[1] /\ ~query.oks[2] /\ query.fetched = <<1, 2>>
    /\ query.err # "" /\ query.events = <<>>
    /\ ClassifiedFrom(1, 1) # <<>>

(***************************************************************************)
(* C13: GetEventsSince(t) whose fetches succeed returns exactly the        *)
(* classified events with timestamp strictly after t, pool after pool and  *)
(* in line order within a pool, once per occurrence.                       *)
(***************************************************************************)
C13_ExactlyEventsAfter ==
    [][(QueryReturns /\ query'.op = "GetEventsSince" /\ query'.err = "")
       => query'.events =
             SelectSeq(Concat([i \in PoolIds |-> ClassifiedFrom(i, 1)],
                              NPools),
                       LAMBDA e : e.Timestamp > query'.arg)]_vars

\* a command that is in the history twice has been returned twice
C13_Witness ==
    /\ query.op = "GetEventsSince" /\ query.err = ""
    /\ Len(query.events) = 2
    /\ query.events[1].Command = query.events[2].Command

(***************************************************************************)
(* C14: GetEventsSinceEvent(marker) returns, pool after pool, the          *)
(* classified lines of the pool that follow the first line of that pool    *)
(* containing the marker, and no line of a pool that precedes that pool's  *)
(* marker line.                                                            *)
(***************************************************************************)
C14_AfterMarkerOfEachPool ==
    [][(QueryReturns /\ query'.op = "GetEventsSinceEvent" /\ query'.err = "")
       => query'.events =
             Concat([i \in PoolIds |->
                        IF MarkerLines(i, query'.arg) = {} THEN <<>>
                        ELSE ClassifiedFrom(i,
                                 MinOf(MarkerLines(i, query'.arg)) + 1)],
                    NPools)]_vars

(***************************************************************************)
(* C15, as stated: GetEventsSinceEvent(marker) returns the marker-not-     *)
(* found error exactly when no line of any pool contains the marker, after *)
(* all pools have been fetched, and succeeds whenever a pool contains the  *)
(* marker.                                                                 *)
(***************************************************************************)
C15_NotFoundIffNoMarker ==
    [][(QueryReturns /\ query'.op = "GetEventsSinceEvent")
       => /\ query'.err = "not found in history"
             <=> \A i \in PoolIds : MarkerLines(i, query'.arg) = {}
          /\ query'.err = "not found in history"
             => query'.fetched = [k \in PoolIds |-> k]
          /\ (\E i \in PoolIds : MarkerLines(i, query'.arg) # {})
             => query'.err = ""]_vars

(***************************************************************************)
(* C15, amended: when every fetch of the query succeeds,                   *)
(* GetEventsSinceEvent(marker) returns the marker-not-found error exactly  *)
(* when no line of any pool contains the marker, after all pools have been *)
(* fetched, and succeeds whenever a pool contains the marker.              *)
(***************************************************************************)
C15_NotFoundIffNoMarkerAndFetched ==
    [][(/\ QueryReturns /\ query'.op = "GetEventsSinceEvent"
        /\ FirstFailure(query'.oks) = 0)
       => /\ query'.err = "not found in history"
             <=> \A i \in PoolIds : MarkerLines(i, query'.arg) = {}
          /\ query'.err = "not found in history"
             => /\ query'.fetched = [k \in PoolIds |-> k]
                /\ query'.events = <<>>
          /\ (\E i \in PoolIds : MarkerLines(i, query'.arg) # {})
             => query'.err = ""]_vars

\* both pools have lines, both were fetched, no line contains the marker and
\* the query returned the marker-not-found error
C15_Witness ==
    /\ query.op = "GetEventsSinceEvent"
    /\ query.err = "not found in history"
    /\ query.fetched = <<1, 2>>
    /\ \A i \in PoolIds : hist[i] # <<>> /\ MarkerLines(i, query.arg) = {}

(***************************************************************************)
(* C16: the historical queries do not touch the live tracker.  A query     *)
(* that returns while the watcher polls leaves lastSeen, markerSeen, the   *)
(* handler list, the handler invocations and the position of the poller    *)
(* as they were, so the polling goes on from the state it was in.          *)
(***************************************************************************)
C16_QueriesLeaveTracker ==
    [][QueryReturns
       => UNCHANGED <<lastEvents, seenSinceEvent, eventHandlers, calls, pc,
                      initialize, pool, output, lineNo, config>>]_vars

\* a query returned an event that was written to the first pool after the
\* initialization pass read that pool, and the poller has recorded and
\* dispatched events
C16_Witness ==
    /\ query.op # "none" /\ query.events # <<>>
    /\ query.events[1].Pool = PoolName(1)
    /\ initLen[1] = 0
    /\ DOMAIN lastEvents # {} /\ calls # <<>>

(***************************************************************************)
(* C17: restart resilience of the continuous watcher example.  The watcher *)
(* is started with the persisted last-run time as the cutoff, no marker    *)
(* and a handler.  An event that was in the history at startup with a      *)
(* timestamp after the cutoff is replayed: when a steady pass reads its    *)
(* line, the handler gets the event or has got it already.                 *)
(***************************************************************************)
C17_DowntimeEventsReplayed ==
    [][(/\ AtEvent /\ ~initialize
        /\ config.SinceTime # NoTime /\ config.SinceEvent = <<>>
        /\ eventHandlers # <<>>
        /\ CurIndex <= initLen[pool]
        /\ CurEvent.Timestamp > config.SinceTime)
       => \/ DispatchedNow(CurEvent)
          \/ \E k \in 1..Len(calls) : calls[k].event = CurEvent]_vars

(***************************************************************************)
(* C18: polling never stops by itself.  Whatever the configured interval   *)
(* and whatever the fetches do, Start does not end the process.            *)
(***************************************************************************)
C18_StartNeverEndsProcess == pc # "panic"

(***************************************************************************)
(* Vocabulary of the properties of parseEvent.                             *)
(***************************************************************************)
\* the line handed to parseEvent has a timestamp and names a volume of a
\* pool after the command word
VolumeLine(verb) ==
    /\ classified.done
    /\ classified.input.stamp = "time"
    /\ classified.input.verb = verb
    /\ IsPool(classified.input.pool)
    /\ IsVolume(classified.input.vol)
ParsedEvent == classified.result.event

(***************************************************************************)
(* C19: for a destroy line, parseEvent tells the two deletions apart by    *)
(* the @snapshot suffix.  With the suffix the event is SnapshotDeleted     *)
(* with snapshotID set and target volumeID@snapshotID; without it the      *)
(* event is VolumeDeleted with empty snapshotID and target volumeID.       *)
(***************************************************************************)
C19_DestroyBySuffix ==
    VolumeLine("destroy")
    => /\ classified.result.err = ""
       /\ ParsedEvent.VolumeID = classified.input.vol
       /\ IF IsSnapshot(classified.input.suffix)
          THEN /\ ParsedEvent.Type = EventSnapshotDeleted
               /\ ParsedEvent.SnapshotID = classified.input.suffix
               /\ ParsedEvent.Target =
                     classified.input.vol \o "@" \o classified.input.suffix
          ELSE /\ ParsedEvent.Type = EventVolumeDeleted
               /\ ParsedEvent.SnapshotID = ""
               /\ ParsedEvent.Target = classified.input.vol

\* a destroy line with the suffix has been classified as a snapshot deletion
C19_Witness ==
    /\ VolumeLine("destroy")
    /\ classified.input.suffix = "snapshot-c"
    /\ ParsedEvent.Type = EventSnapshotDeleted
    /\ ParsedEvent.Target = "volume-a_0@snapshot-c"

(***************************************************************************)
(* C20: for a line of the volume-creation shape, parseEvent returns        *)
(* VolumeCreated with volumeID and target equal to the embedded volume     *)
(* identifier; size is the embedded KB value when the command carries the  *)
(* size flag `-s -V <n>KB`, and is empty when it does not.                 *)
(***************************************************************************)
C20_CreateWithSize ==
    VolumeLine("create")
    => /\ classified.result.err = ""
       /\ ParsedEvent.Type = EventVolumeCreated
       /\ ParsedEvent.VolumeID = classified.input.vol
       /\ ParsedEvent.Target = classified.input.vol
       /\ ParsedEvent.SnapshotID = ""
       /\ ParsedEvent.Size = IF classified.input.flag = "-s -V"
                             THEN classified.input.kb ELSE ""

\* a creation line with the size flag has been classified with its size
C20_Witness ==
    /\ VolumeLine("create")
    /\ classified.input.flag = "-s -V" /\ classified.input.kb = "2048"
    /\ ParsedEvent.Type = EventVolumeCreated
    /\ ParsedEvent.Size = "2048"

(***************************************************************************)
(* C21: every event that parseEvent returns without error has one of the   *)
(* five event types, a non-empty target and a non-empty volumeID; its      *)
(* snapshotID is set exactly when the type is SnapshotCreated or           *)
(* SnapshotDeleted, and then the target is volumeID@snapshotID.            *)
(***************************************************************************)
C21_ClassifiedEventShape ==
    (classified.done /\ classified.result.err = "")
    => /\ ParsedEvent.Type \in {EventVolumeCreated, EventVolumeDeleted,
                                EventSnapshotCreated, EventSnapshotDeleted,
                                EventVolumeResized}
       /\ ParsedEvent.Target # ""
       /\ ParsedEvent.VolumeID # ""
       /\ ParsedEvent.SnapshotID # ""
          <=> ParsedEvent.Type \in {EventSnapshotCreated,
                                    EventSnapshotDeleted}
       /\ ParsedEvent.SnapshotID # ""
          => ParsedEvent.Target =
                ParsedEvent.VolumeID \o "@" \o ParsedEvent.SnapshotID

\* a snapshot line has been classified as a snapshot creation
C21_Witness ==
    /\ classified.done /\ classified.result.err = ""
    /\ classified.input.verb = "snapshot"
    /\ ParsedEvent.Type = EventSnapshotCreated
    /\ ParsedEvent.SnapshotID = "snapshot-c"
    /\ ParsedEvent.Target = "volume-a_0@snapshot-c"

(***************************************************************************)
(* C22: the phases of the scheduler.  The initialization loop fetches      *)
(* every pool once, in configuration order; the first steady pass begins   *)
(* after every pool has had its initialization pass; initialize never      *)
(* becomes true again; the steady passes go through the pools in           *)
(* configuration order, tick after tick.                                   *)
(***************************************************************************)
C22_SchedulerPhases ==
    [][/\ initialize' => initialize
       /\ (pc = "fetch" /\ initialize /\ (pc' # "fetch" \/ pool' # pool))
          => \A j \in PoolIds :
                IF j < pool THEN initLen[j] >= 0 ELSE initLen[j] = -1
       /\ (initialize /\ initialize' /\ pool' # pool) => pool' = pool + 1
       /\ (initialize /\ ~initialize')
          => /\ pool = NPools /\ pool' = 1 /\ pc' = "fetch"
             /\ \A j \in PoolIds : initLen[j] >= 0
       /\ (~initialize /\ pool' # pool)
          => /\ pc' = "fetch"
             /\ pool' = IF pool < NPools THEN pool + 1 ELSE 1]_vars

\* a steady tick has dispatched an event of the first pool and is now at a
\* line of the second pool
C22_Witness ==
    /\ ~initialize /\ pc = "scan" /\ pool = NPools /\ lineNo = 2
    /\ \A j \in PoolIds : initLen[j] >= 0
    /\ Len(calls) > tickStart
    /\ calls[Len(calls)].event.Pool = PoolName(1)

(***************************************************************************)
(* C23: delivery order within a tick.  The handler invocations of one      *)
(* steady tick are in pool order and, within a pool, in the order of the   *)
(* lines of its history: no invocation for a later line or a later pool    *)
(* comes before one for an earlier line or an earlier pool.                *)
(***************************************************************************)
C23_OrderWithinTick ==
    \A j, k \in (tickStart + 1)..Len(calls) :
        j < k
        => \/ PoolIdx(calls[j].event.Pool) < PoolIdx(calls[k].event.Pool)
           \/ /\ calls[j].event.Pool = calls[k].event.Pool
              /\ calls[j].line <= calls[k].line

\* one tick has dispatched two events of the same pool
C23_Witness ==
    /\ ~initialize
    /\ Len(calls) >= tickStart + 2
    /\ calls[tickStart + 1].event.Pool = calls[Len(calls)].event.Pool
    /\ calls[tickStart + 1].line < calls[Len(calls)].line

(***************************************************************************)
(* C24: the dedup rule.  lastSeen is keyed by the command text.  An event  *)
(* whose command has a recorded lastSeen at or after the event's timestamp *)
(* is rejected: the step dispatches nothing and leaves lastSeen as it is.  *)
(* An event whose command has no recorded lastSeen, or one strictly before *)
(* its timestamp, passes the dedup gate: when the cutoff and the marker    *)
(* let it through as well it is recorded and, in a steady pass,            *)
(* dispatched.                                                             *)
(***************************************************************************)
C24_DedupRule ==
    [][IF pc # "scan" THEN DOMAIN lastEvents' \subseteq DOMAIN lastEvents
       ELSE \A r \in {CurParse} :
          LET isEvent == ~IsHeaderOrEmpty(CurLine) /\ r.err = ""
              passes == \/ r.event.Command \notin DOMAIN lastEvents
                        \/ lastEvents[r.event.Command] < r.event.Timestamp
              cutoff == \/ config.SinceTime = NoTime
                        \/ r.event.Timestamp > config.SinceTime
          IN  /\ (isEvent /\ ~passes) => UNCHANGED <<calls, lastEvents>>
              /\ (isEvent /\ passes /\ cutoff /\ seenSinceEvent)
                 => /\ lastEvents' = UpdateLast(lastEvents, r.event)
                    /\ ~initialize => /\ DispatchedNow(r.event)
                                      /\ Len(NewCalls) = Len(eventHandlers)
              /\ DOMAIN lastEvents' \subseteq
                    DOMAIN lastEvents \cup {r.event.Command}]_vars

\* a steady pass is at a line it has not read before, whose command was
\* recorded at the same timestamp: the dedup gate rejects it
C24_Witness ==
    /\ AtEvent /\ ~initialize /\ ~PassesDedup
    /\ eventHandlers # <<>>
    /\ scanned[pool] >= 0 /\ CurIndex > scanned[pool]
    /\ lastEvents[CurEvent.Command] = CurEvent.Timestamp

(***************************************************************************)
(* C25.  Suppression until the marker is seen: whenever a marker is        *)
(* configured and seenSinceEvent is false, no handler has been invoked by  *)
(* this watcher and lastEvents is as New made it (empty).  With no marker  *)
(* configured seenSinceEvent is true from New on, no line is ever taken    *)
(* for the marker, and no classified line is turned away for want of it.   *)
(***************************************************************************)
C25_SuppressedUntilMarker ==
    /\ (config.SinceEvent # <<>> /\ ~seenSinceEvent)
          => /\ calls = <<>>
             /\ DOMAIN lastEvents = {}
    /\ config.SinceEvent = <<>>
          => /\ seenSinceEvent
             /\ markerAt = <<0, 0>>
             /\ pc = "scan" =>
                   ~IsSinceEvent(seenSinceEvent, config, CurLine)

\* a steady pass with a handler registered has already gone past a classified
\* line that is after the cutoff, and the marker has not been seen
C25_Witness ==
    /\ config.SinceEvent # <<>>
    /\ ~seenSinceEvent
    /\ ~initialize
    /\ eventHandlers # <<>>
    /\ pc = "scan"
    /\ lineNo = 3
    /\ parseEvent(output[2], config.Pools[pool]).err = ""
    /\ ~BeforeSinceTime(config, parseEvent(output[2], config.Pools[pool]).event)

(***************************************************************************)
(* Lines that are not events, told by their text: no space, a first field  *)
(* that is not one of the timestamps, or a command that starts with none   *)
(* of the four verbs of the expressions.                                   *)
(***************************************************************************)
EventVerbs == {"zfs create", "zfs set", "zfs snapshot", "zfs destroy"}

NotAnEvent(line) ==
    /\ ~IsHeaderOrEmpty(line)
    /\ \/ \A k \in 1..Len(line) : line[k] # " "
       \/ \A n \in 0..9 : line[1] # StampText(n)
       \/ At(line, 3) \notin EventVerbs

\* the step is one turn of the scanner loop of a pass
ScanStep == pc = "scan" /\ (lineNo' # lineNo \/ pc' # "scan")

\* the line of the histories an event was read from
LineOf(ev) == <<StampText(ev.Timestamp), " ">> \o ev.Command

(***************************************************************************)
(* C26.  A line with no space, with an unparseable timestamp or with a     *)
(* command of none of the four kinds is skipped silently: the step of a    *)
(* pass on it invokes no handler and leaves lastEvents as it is, the pass  *)
(* goes on to the next line of the output when there is one, and every     *)
(* event a historical query returns was read from a line of the event's    *)
(* pool that is none of these.                                             *)
(***************************************************************************)
C26_NonEventsSkipped ==
    [][/\ (ScanStep /\ NotAnEvent(CurLine))
             => /\ UNCHANGED <<calls, lastEvents>>
                /\ lineNo < Len(output)
                      => /\ pc' = "scan"
                         /\ lineNo' = lineNo + 1
                         /\ output' = output
       /\ QueryReturns
             => \A k \in 1..Len(query'.events) :
                      /\ ~NotAnEvent(LineOf(query'.events[k]))
                      /\ \E n \in 1..Len(hist[PoolIdx(query'.events[k].Pool)]) :
                            hist[PoolIdx(query'.events[k].Pool)][n]
                               = LineOf(query'.events[k])]_vars

\* a steady pass has dispatched the second line of a history whose first line
\* has no space, and a query has returned an event of these histories
C26_Witness ==
    /\ calls # <<>>
    /\ calls[Len(calls)].line = 3
    /\ hist[PoolIdx(calls[Len(calls)].event.Pool)][1] = NoSpaceLine
    /\ query # NoQuery
    /\ query.events # <<>>

(***************************************************************************)
(* C28.  The marker is looked for before the line is parsed, and           *)
(* seenSinceEvent only ever goes from false to true: while it is false, a  *)
(* line of any pool that is neither header nor empty and contains the      *)
(* marker sets it, whether or not the line is an event; nothing else sets  *)
(* it; once it is true no line of any pool is taken for the marker, and no *)
(* pass, failed fetch or query makes it false again.                       *)
(***************************************************************************)
C28_MarkerBeforeParse ==
    [][/\ seenSinceEvent => seenSinceEvent'
       /\ (/\ ScanStep /\ ~seenSinceEvent /\ config.SinceEvent # <<>>
           /\ ~IsHeaderOrEmpty(CurLine)
           /\ Contains(CurLine, config.SinceEvent))
             => /\ seenSinceEvent'
                /\ markerAt' = <<pool, lineNo>>
                /\ UNCHANGED <<calls, lastEvents>>
       /\ (~seenSinceEvent /\ seenSinceEvent')
             => /\ pc = "scan"
                /\ ~IsHeaderOrEmpty(CurLine)
                /\ Contains(CurLine, config.SinceEvent)
       /\ seenSinceEvent => markerAt' = markerAt]_vars

\* the marker was seen in a line of the second pool whose timestamp does not
\* parse; the ticks have begun and a query has been answered
C28_Witness ==
    /\ config.SinceEvent # <<>>
    /\ seenSinceEvent
    /\ markerAt[1] = 2
    /\ hist[2][markerAt[2] - 1] = BadStampLine(PoolName(2))
    /\ ~initialize
    /\ query # NoQuery

(***************************************************************************)
(* C27.  lastEvents is monotone and complete: no step lowers the time      *)
(* recorded for a command or removes an entry, and when a pass ends with   *)
(* the marker seen, every line of the output it scanned that is an event   *)
(* with a timestamp strictly after the cutoff has an entry for its command *)
(* at or after its own timestamp.                                          *)
(***************************************************************************)
LastSeenMonotone ==
    \A c \in DOMAIN lastEvents :
        c \in DOMAIN lastEvents' /\ lastEvents'[c] >= lastEvents[c]

\* the scanner step on the last line of the output: the pass returns
PassEnds == ScanStep /\ lineNo = Len(output)

RecordedAfterPass ==
    \A n \in 2..Len(output) :
        \A r \in {parseEvent(output[n], config.Pools[pool])} :
            (r.err = "" /\ ~BeforeSinceTime(config, r.event))
               => /\ r.event.Command \in DOMAIN lastEvents'
                  /\ lastEvents'[r.event.Command] >= r.event.Timestamp

C27_LastSeenMonotoneComplete ==
    [][/\ LastSeenMonotone
       /\ (PassEnds /\ seenSinceEvent') => RecordedAfterPass]_vars

====
